---- MODULE Spec2Model ----
(***************************************************************************)
(* Masked mean pooling, the embedding-only forward pass and the            *)
(* classification training step of the two notebooks                       *)
(*   src/Step_1_Sentence_Transformer_Nishanth.ipynb  (SentenceTransformer) *)
(*   src/unnamed/part_000          (SentenceClassificationTransformer)     *)
(*                                                                         *)
(* Tensors are sequences (1-based) of sequences.  Float values are exact   *)
(* rationals <<n, d>> in lowest terms with d > 0; d = 0 encodes the IEEE   *)
(* non-finite values: <<0,0>> is NaN, <<1,0>> is +Inf, <<-1,0>> is -Inf.   *)
(***************************************************************************)
EXTENDS Integers, Sequences, FiniteSets

\* ------------------------------------------------------------------ bounds
\* largest size of one tensor dimension (batch, sequence, hidden) in SpecPool
MaxDim == 3
\* largest number of elements of a token embedding batch / of a mask in SpecPool
MaxCells == 4

\* most words of one sentence, most sentences of one batch
MaxLen == 1
MaxBatch == 2
\* encoder.config.hidden_size of the stub encoder
HiddenSize == 2
\* most training steps run one after the other
MaxSteps == 2

\* values of one token-embedding element (finite floats, as small integers)
Vals == {-1, 0, 2}

\* 1 / (the floor of torch.clamp(..., min=1e-9))
EpsInv == 1000000000

\* num_classes of SentenceClassificationTransformer.__init__
num_classes == 3

\* word ids of the tokenizer's vocabulary ([PAD] is 0, [CLS] is 1, [SEP] is 2)
Vocab == {3}
\* the pre-trained encoder weights AutoModel.from_pretrained may load
Pretrained == {1, 2, 3}
\* the draws of nn.Linear's random initialisation
InitScales == {-1, 1}
\* the non-zero changes one AdamW update makes to a parameter's entries
Deltas == {-1, 1}

VARIABLES
    token_embeddings,   \* argument E of mean_pooling, shape (B, T, H)
    attention_mask,     \* argument M of mean_pooling, shape (B', T')
    call,               \* the last mean_pooling call: its arguments, locals, result
    \* SentenceTransformer (embedding-only notebook)
    st_encoder,         \* self.encoder's weights
    st_last,            \* the last forward call: its sentences and its embeddings
    st_kept,            \* an earlier forward call, kept for comparison
    \* SentenceClassificationTransformer and its training script
    encoder,            \* self.encoder's weights
    classifier,         \* self.classifier: [weight |-> W, bias |-> b]
    grad,               \* .grad of each parameter: the losses accumulated in it
    opt_params,         \* the parameters the optimizer was built over
    sample_sentences,   \* the batch of the script
    sentence_labels,    \* one label per sentence
    class_logits,       \* result of the forward pass
    classification_loss,\* result of the loss function
    pc,                 \* the statement of the training step that runs next
    steps,              \* completed training steps
    before,             \* the parameters when this training step began
    consumed,           \* the gradients the last optimizer.step() read
    ops                 \* the operations run so far in this training step

poolVars == <<token_embeddings, attention_mask, call>>
embedVars == <<st_encoder, st_last, st_kept>>
trainVars == <<encoder, classifier, grad, opt_params, sample_sentences,
               sentence_labels, class_logits, classification_loss, pc, steps,
               before, consumed, ops>>
vars == <<poolVars, embedVars, trainVars>>

\* ---------------------------------------------------------------- numbers
Abs(x) == IF x < 0 THEN -x ELSE x

RECURSIVE Gcd(_, _)
Gcd(a, b) == IF b = 0 THEN a ELSE Gcd(b, a % b)

\* the float n / d of two integers (IEEE: x/0 is +-Inf, 0/0 is NaN)
Frac(n, d) ==
    IF d = 0 THEN <<(IF n > 0 THEN 1 ELSE IF n < 0 THEN -1 ELSE 0), 0>>
    ELSE LET g == Gcd(Abs(n), Abs(d))
             s == IF d < 0 THEN -1 ELSE 1
         IN  <<s * (n \div g), s * (d \div g)>>

IsFinite(q) == q[2] # 0

\* integer x below the rational q (q finite, q[2] > 0): x * q[2] < q[1]
IntBelow(x, q) == x <= (q[1] - 1) \div q[2]

\* integer n divided by the float q
DivInt(n, q) ==
    IF ~IsFinite(q) THEN (IF q[1] = 0 THEN <<0, 0>> ELSE <<0, 1>>)
    ELSE Frac(n * q[2], q[1])

RECURSIVE SumSeq(_)
SumSeq(s) == IF s = <<>> THEN 0 ELSE Head(s) + SumSeq(Tail(s))

\* ---------------------------------------------------------------- tensors
\* all tensors of shape (B, T, H) over the set V, and of shape (B, T)
Tensor3(B, T, H, V) == [1..B -> [1..T -> [1..H -> V]]]
Tensor2(B, T, V) == [1..B -> [1..T -> V]]

Size3(x) == <<Len(x), Len(x[1]), Len(x[1][1])>>
Size2(x) == <<Len(x), Len(x[1])>>

\* attention_mask.unsqueeze(-1): shape (B', T') becomes (B', T', 1)
Unsqueeze(m) == [b \in 1..Len(m) |-> [t \in 1..Len(m[b]) |-> <<m[b][t]>>]]

\* Tensor.expand: a dimension of size 1 is repeated, any other must match
CanExpand(from, to) == \A i \in 1..3 : from[i] = to[i] \/ from[i] = 1

Expand(x, to) ==
    LET from == Size3(x)
    IN  [b \in 1..to[1] |-> [t \in 1..to[2] |-> [h \in 1..to[3] |->
            x[IF from[1] = 1 THEN 1 ELSE b]
             [IF from[2] = 1 THEN 1 ELSE t]
             [IF from[3] = 1 THEN 1 ELSE h]]]]

\* elementwise product of two tensors of the same shape
Mul3(x, y) ==
    [b \in 1..Len(x) |-> [t \in 1..Len(x[b]) |-> [h \in 1..Len(x[b][t]) |->
        x[b][t][h] * y[b][t][h]]]]

\* a mutant of SumDim1: reduces the hidden dimension instead of the sequence one
SumDim2(x) ==
    [b \in 1..Len(x) |-> [t \in 1..Len(x[b]) |->
        SumSeq([h \in 1..Len(x[b][t]) |-> x[b][t][h]])]]

\* torch.sum(x, 1) and x.sum(1): shape (B, T, H) becomes (B, H)
SumDim1(x) ==
    [b \in 1..Len(x) |-> [h \in 1..Len(x[b][1]) |->
        SumSeq([t \in 1..Len(x[b]) |-> x[b][t][h]])]]

\* a mutant of Clamp: no floor, the sum of the mask is the denominator as it is
NoClamp(x, min) == [b \in 1..Len(x) |-> [h \in 1..Len(x[b]) |-> <<x[b][h], 1>>]]

\* torch.clamp(x, min=...) of an integer tensor with a float floor: a float tensor
Clamp(x, min) ==
    [b \in 1..Len(x) |-> [h \in 1..Len(x[b]) |->
        IF IntBelow(x[b][h], min) THEN min ELSE <<x[b][h], 1>>]]

\* sum_embeddings / sum_mask, elementwise
Div2(x, y) ==
    [b \in 1..Len(x) |-> [h \in 1..Len(x[b]) |-> DivInt(x[b][h], y[b][h])]]

\* a mutant of MaskedEmbeddings: the last position of the sequence is not masked
LastUnmasked(E, input_mask_expanded) ==
    [b \in 1..Len(E) |-> [t \in 1..Len(E[b]) |-> [h \in 1..Len(E[b][t]) |->
        IF t = Len(E[b]) THEN E[b][t][h]
        ELSE E[b][t][h] * input_mask_expanded[b][t][h]]]]

\* token_embeddings * input_mask_expanded
MaskedEmbeddings(E, input_mask_expanded) == Mul3(E, input_mask_expanded)

\* a mutant of MaskSum: the plain mean's denominator, the sequence length
SequenceLength(input_mask_expanded) ==
    [b \in 1..Len(input_mask_expanded) |-> [h \in 1..Len(input_mask_expanded[b][1]) |->
        Len(input_mask_expanded[b])]]

\* input_mask_expanded.sum(1)
MaskSum(input_mask_expanded) == SumDim1(input_mask_expanded)

\* whether .expand(token_embeddings.size()) accepts the unsqueezed mask
MaskExpandable(E, M) == CanExpand(Size3(Unsqueeze(M)), Size3(E))

\* SentenceTransformer.mean_pooling / SentenceClassificationTransformer.mean_pooling.
\* raised: .expand raised RuntimeError (the shape-mismatch failure), nothing is returned
mean_pooling(E, M) ==
    IF ~MaskExpandable(E, M)
    THEN [raised |-> TRUE, input_mask_expanded |-> <<>>, sum_embeddings |-> <<>>,
          sum_mask |-> <<>>, out |-> <<>>]
    ELSE LET input_mask_expanded == Expand(Unsqueeze(M), Size3(E))
             sum_embeddings == SumDim1(MaskedEmbeddings(E, input_mask_expanded))
             sum_mask == Clamp(MaskSum(input_mask_expanded), <<1, EpsInv>>)
         IN  [raised |-> FALSE, input_mask_expanded |-> input_mask_expanded,
              sum_embeddings |-> sum_embeddings, sum_mask |-> sum_mask,
              out |-> Div2(sum_embeddings, sum_mask)]

\* ------------------------------------------------------- pooling as a system
\* SpecPool: the inputs of one mean_pooling call are drawn from the bounded
\* sets below; MeanPoolingCall applies the function, ChangePadding moves to
\* another input that agrees with the pooled one at every real token.

Shapes3 == {s \in (1..MaxDim) \X (1..MaxDim) \X (1..MaxDim) : s[1] * s[2] * s[3] <= MaxCells}
Shapes2 == {s \in (1..MaxDim) \X (1..MaxDim) : s[1] * s[2] <= MaxCells}

NoCall == [done |-> FALSE, E |-> <<>>, M |-> <<>>, raised |-> FALSE,
           input_mask_expanded |-> <<>>, sum_embeddings |-> <<>>,
           sum_mask |-> <<>>, out |-> <<>>]

NoForward == [done |-> FALSE, sentences |-> <<>>, out |-> <<>>, encoder |-> 0]

\* the state of a notebook that is not run
PoolIdle == token_embeddings = <<>> /\ attention_mask = <<>> /\ call = NoCall
EmbedIdle == st_encoder = 0 /\ st_last = NoForward /\ st_kept = NoForward
TrainIdle ==
    /\ encoder = 0 /\ classifier = <<>> /\ grad = <<>> /\ opt_params = {}
    /\ sample_sentences = <<>> /\ sentence_labels = <<>>
    /\ class_logits = <<>> /\ classification_loss = <<>>
    /\ pc = "idle" /\ steps = 0 /\ before = <<>> /\ consumed = <<>> /\ ops = <<>>

InitPool ==
    /\ \E s \in Shapes3 : token_embeddings \in Tensor3(s[1], s[2], s[3], Vals)
    /\ \E s \in Shapes2 : attention_mask \in Tensor2(s[1], s[2], {0, 1})
    /\ call = NoCall
    /\ EmbedIdle /\ TrainIdle

\* one call mean_pooling(token_embeddings, attention_mask)
MeanPoolingCall ==
    /\ LET r == mean_pooling(token_embeddings, attention_mask)
       IN  call' = [done |-> TRUE, E |-> token_embeddings, M |-> attention_mask,
                    raised |-> r.raised,
                    input_mask_expanded |-> r.input_mask_expanded,
                    sum_embeddings |-> r.sum_embeddings,
                    sum_mask |-> r.sum_mask, out |-> r.out]
    /\ UNCHANGED <<token_embeddings, attention_mask, embedVars, trainVars>>

\* the caller's next batch differs from the pooled one at one padding position
ChangePadding ==
    /\ call.done /\ ~call.raised
    /\ Size2(attention_mask) = <<Len(token_embeddings), Len(token_embeddings[1])>>
    /\ \E b \in 1..Len(token_embeddings), t \in 1..Len(token_embeddings[1]),
          h \in 1..Len(token_embeddings[1][1]), v \in Vals :
          /\ attention_mask[b][t] = 0
          /\ v # token_embeddings[b][t][h]
          /\ token_embeddings' = [token_embeddings EXCEPT ![b][t][h] = v]
    /\ UNCHANGED <<attention_mask, call, embedVars, trainVars>>

NextPool == MeanPoolingCall \/ ChangePadding

SpecPool == InitPool /\ [][NextPool]_vars

\* ------------------------------------------------------ claims on mean_pooling
\* the mask of the call has the shape of E's first two dimensions
SameShape(c) == Size2(c.M) = <<Len(c.E), Len(c.E[1])>>

RowHasRealToken(M, b) == \E t \in 1..Len(M[b]) : M[b][t] = 1

\* (sum over t of E[b,t,h] * M[b,t]) / (sum over t of M[b,t]), computed by hand
RealTokenAverage(E, M, b, h) ==
    Frac(SumSeq([t \in 1..Len(M[b]) |-> E[b][t][h] * M[b][t]]),
         SumSeq([t \in 1..Len(M[b]) |-> M[b][t]]))

\* E1 and E2 have one shape and agree wherever the mask marks a real token
AgreeOnRealTokens(E1, E2, M) ==
    /\ Size3(E1) = Size3(E2)
    /\ \A b \in 1..Len(M) : \A t \in 1..Len(M[b]) :
          M[b][t] = 1 => E1[b][t] = E2[b][t]

\* C1: with a mask of E's shape and a real token in every row, mean_pooling
\* returns, for every b and h, the average of the real tokens' embeddings:
\* sum_t E[b,t,h]*M[b,t] divided by sum_t M[b,t] (the floor does not act).
C1_MeanOfRealTokens ==
    (call.done /\ SameShape(call) /\ \A b \in 1..Len(call.M) : RowHasRealToken(call.M, b))
    => /\ ~call.raised
       /\ \A b \in 1..Len(call.E), h \in 1..Len(call.E[1][1]) :
             call.out[b][h] = RealTokenAverage(call.E, call.M, b, h)

\* C1 witness: a pooled batch with a row holding real tokens and padding,
\* whose average is not an integer
C1_Witness ==
    /\ call.done /\ ~call.raised /\ SameShape(call)
    /\ \A b \in 1..Len(call.M) : RowHasRealToken(call.M, b)
    /\ \E b \in 1..Len(call.M) : \E t \in 1..Len(call.M[b]) :
          call.M[b][t] = 0 /\ call.E[b][t][1] # 0
    /\ \E b \in 1..Len(call.out) : call.out[b][1][2] = 2

\* C2: a mask whose shape differs from E's first two dimensions (a dimension
\* of size 1 included) makes mean_pooling fail and return nothing.
C2_ShapeMismatchRaises ==
    (call.done /\ ~SameShape(call)) => (call.raised /\ call.out = <<>>)

\* C3: with a mask of E's shape in which some row is all zero, mean_pooling
\* does not raise; the denominator of such a row is the floor 1e-9, its
\* outputs are finite; every other row is the average of its real tokens.
C3_ZeroRowFloor ==
    (call.done /\ SameShape(call)
        /\ \E b \in 1..Len(call.M) : ~RowHasRealToken(call.M, b))
    => /\ ~call.raised
       /\ \A b \in 1..Len(call.E), h \in 1..Len(call.E[1][1]) :
             IF RowHasRealToken(call.M, b)
             THEN call.out[b][h] = RealTokenAverage(call.E, call.M, b, h)
             ELSE /\ call.sum_mask[b][h] = <<1, EpsInv>>
                  /\ IsFinite(call.out[b][h])

\* C3 witness: a pooled batch with an all-padding row of non-zero embeddings
\* beside a row that has a real token
C3_Witness ==
    /\ call.done /\ ~call.raised /\ SameShape(call)
    /\ \E b \in 1..Len(call.M) :
          /\ ~RowHasRealToken(call.M, b)
          /\ \E t \in 1..Len(call.E[b]) : call.E[b][t][1] # 0
    /\ \E b \in 1..Len(call.M) : RowHasRealToken(call.M, b)

\* C4: two batches that agree at every real token (mask of their shape) are
\* pooled to the same output, whatever they hold at the padding positions.
C4_PaddingIgnored ==
    (call.done /\ ~call.raised /\ SameShape(call) /\ attention_mask = call.M
        /\ AgreeOnRealTokens(call.E, token_embeddings, call.M))
    => LET r == mean_pooling(token_embeddings, attention_mask)
       IN  ~r.raised /\ r.out = call.out

\* C4 witness: the batch now differs from the pooled one, at padding only,
\* and the pooled output is not zero
C4_Witness ==
    /\ call.done /\ ~call.raised /\ SameShape(call) /\ attention_mask = call.M
    /\ AgreeOnRealTokens(call.E, token_embeddings, call.M)
    /\ token_embeddings # call.E
    /\ \E b \in 1..Len(call.out) : call.out[b][1][1] # 0

\* C5: for E of shape (B, T, H) and M of shape (B, T), the output has shape
\* (B, H): one vector of length H per batch element.
C5_OutputShape ==
    (call.done /\ SameShape(call))
    => /\ ~call.raised
       /\ Len(call.out) = Len(call.E)
       /\ \A b \in 1..Len(call.out) :
             /\ Len(call.out[b]) = Len(call.E[1][1])
             /\ \A h \in 1..Len(call.out[b]) : Len(call.out[b][h]) = 2

\* C5 witness: a pooled batch whose batch, sequence and hidden sizes differ
C5_Witness ==
    /\ call.done /\ ~call.raised /\ SameShape(call)
    /\ Len(call.E[1]) # Len(call.E[1][1])
    /\ Len(call.E) # Len(call.E[1][1])
    /\ Len(call.out) = Len(call.E)

\* --------------------------------------------------- tokenizer and encoder
\* the sentences of at most MaxLen words, the batches of at most MaxBatch sentences
RECURSIVE SeqsUpTo(_, _)
SeqsUpTo(S, n) ==
    IF n = 0 THEN {<<>>}
    ELSE LET shorter == SeqsUpTo(S, n - 1)
         IN  shorter \cup {Append(q, x) : q \in shorter, x \in S}

Sentences == SeqsUpTo(Vocab, MaxLen)
Batches == SeqsUpTo(Sentences, MaxBatch) \ {<<>>}

RECURSIVE MaxOfSeq(_)
MaxOfSeq(s) ==
    IF Len(s) = 1 THEN s[1]
    ELSE LET m == MaxOfSeq(Tail(s)) IN IF s[1] > m THEN s[1] ELSE m

\* self.tokenizer(sentences, padding=True, truncation=True, return_tensors="pt"):
\* [CLS] words [SEP], padded with [PAD] to the longest sentence of the batch
Tokenizer(sentences) ==
    LET ids(i) == <<1>> \o sentences[i] \o <<2>>
        T == MaxOfSeq([i \in 1..Len(sentences) |-> Len(ids(i))])
    IN  [input_ids |-> [i \in 1..Len(sentences) |-> [t \in 1..T |->
                          IF t <= Len(ids(i)) THEN ids(i)[t] ELSE 0]],
         attention_mask |-> [i \in 1..Len(sentences) |-> [t \in 1..T |->
                          IF t <= Len(ids(i)) THEN 1 ELSE 0]]]

\* self.encoder(**inputs).last_hidden_state: a stub of the pre-trained encoder,
\* one vector of HiddenSize values per token, a function of the ids and the weights
Encoder(w, input_ids, mask) ==
    [b \in 1..Len(input_ids) |-> [t \in 1..Len(input_ids[b]) |-> [h \in 1..HiddenSize |->
        w * (input_ids[b][t] + h)]]]

\* SentenceTransformer.forward: the sentence embeddings of a batch
STEmbeddings(w, sentences) ==
    LET inputs == Tokenizer(sentences)
        outputs == Encoder(w, inputs.input_ids, inputs.attention_mask)
    IN  mean_pooling(outputs, inputs.attention_mask).out

\* ------------------------------------------- embedding-only forward pass
InitEmbed ==
    /\ st_encoder \in Pretrained
    /\ st_last = NoForward
    /\ st_kept = NoForward
    /\ PoolIdle /\ TrainIdle

\* a mutant of STForward: the call also changes the encoder's weights
STForwardTouchingWeights(sentences) ==
    /\ st_last' = [done |-> TRUE, sentences |-> sentences,
                   out |-> STEmbeddings(st_encoder, sentences), encoder |-> st_encoder]
    /\ st_encoder' = st_encoder + 1
    /\ UNCHANGED <<st_kept, poolVars, trainVars>>

\* embeddings = sentence_transformer(sentences)
STForward(sentences) ==
    /\ st_last' = [done |-> TRUE, sentences |-> sentences,
                   out |-> STEmbeddings(st_encoder, sentences), encoder |-> st_encoder]
    /\ UNCHANGED <<st_encoder, st_kept, poolVars, trainVars>>

\* the caller keeps the result of the last call to compare later ones with
KeepResult ==
    /\ st_last.done /\ st_kept # st_last
    /\ st_kept' = st_last
    /\ UNCHANGED <<st_encoder, st_last, poolVars, trainVars>>

NextEmbed == (\E sentences \in Batches : STForward(sentences)) \/ KeepResult

SpecEmbed == InitEmbed /\ [][NextEmbed]_vars

\* C6: the embedding-only forward pass is stateless: a call changes no
\* parameter of the model, and a call with the sentences of an earlier call
\* returns the embeddings that call returned.
C6_ForwardStateless ==
    /\ st_last.done => st_encoder = st_last.encoder
    /\ st_kept.done => st_encoder = st_kept.encoder
    /\ (st_last.done /\ st_kept.done /\ st_last.sentences = st_kept.sentences)
          => st_last.out = st_kept.out

\* C6 witness: a batch with padding was embedded again, after a call on other
\* sentences, and the kept call's embeddings are not zero
C6_Witness ==
    /\ st_last.done /\ st_kept.done /\ st_last.sentences = st_kept.sentences
    /\ Len(st_last.sentences) = 2
    /\ Len(st_last.sentences[1]) # Len(st_last.sentences[2])
    /\ st_last.out[1][1][1] # 0

\* ------------------------------------------------- classification model
NaN == <<0, 0>>

\* float arithmetic on rationals; a non-finite operand gives NaN
RatAdd(p, q) ==
    IF ~IsFinite(p) \/ ~IsFinite(q) THEN NaN
    ELSE Frac(p[1] * q[2] + q[1] * p[2], p[2] * q[2])
RatSub(p, q) == RatAdd(p, <<-q[1], q[2]>>)
RatMulInt(p, k) == IF ~IsFinite(p) THEN NaN ELSE Frac(p[1] * k, p[2])
RatDivInt(p, k) == IF ~IsFinite(p) THEN NaN ELSE Frac(p[1], p[2] * k)
RatLess(p, q) == p[1] * q[2] < q[1] * p[2]

RECURSIVE RatSum(_)
RatSum(s) == IF s = <<>> THEN <<0, 1>> ELSE RatAdd(Head(s), RatSum(Tail(s)))

RECURSIVE RatMax(_)
RatMax(s) ==
    IF Len(s) = 1 THEN s[1]
    ELSE LET m == RatMax(Tail(s)) IN IF RatLess(m, s[1]) THEN s[1] ELSE m

AllFinite2(x) == \A b \in 1..Len(x) : \A c \in 1..Len(x[b]) : IsFinite(x[b][c])

\* the parameters of the model: model.parameters()
ParamNames == {"encoder", "classifier.weight", "classifier.bias"}

\* nn.Linear(hidden_size, num_classes) as initialised: W of shape
\* (num_classes, hidden_size), b of shape (num_classes,)
LinearInit(a) ==
    [weight |-> [c \in 1..num_classes |-> [h \in 1..HiddenSize |-> a * (c - h)]],
     bias |-> [c \in 1..num_classes |-> a * (2 - c)]]

\* self.classifier(pooled_output): logits = S W^T + b
Linear(cls, S) ==
    [b \in 1..Len(S) |-> [c \in 1..num_classes |->
        RatAdd(RatSum([h \in 1..Len(S[b]) |-> RatMulInt(S[b][h], cls.weight[c][h])]),
               <<cls.bias[c], 1>>)]]

\* SentenceClassificationTransformer.forward
ClassLogits(w, cls, sentences) ==
    LET inputs == Tokenizer(sentences)
        outputs == Encoder(w, inputs.input_ids, inputs.attention_mask)
        pooled_output == mean_pooling(outputs, inputs.attention_mask).out
    IN  Linear(cls, pooled_output)

\* nn.CrossEntropyLoss()(logits, labels), mean over the batch of
\* log(sum_c exp(z[c])) - z[label].  The logarithm is not rational: the loss is
\* kept as its enclosure [lower, lower + log(num_classes)], where lower is the
\* mean of max_c z[c] - z[label]; it is NaN when a logit is not finite.
CrossEntropyLoss(logits, labels, id) ==
    IF ~AllFinite2(logits) THEN [id |-> id, finite |-> FALSE, lower |-> NaN]
    ELSE [id |-> id, finite |-> TRUE,
          lower |-> RatDivInt(RatSum([b \in 1..Len(logits) |->
                        RatSub(RatMax(logits[b]), logits[b][labels[b] + 1])]),
                      Len(logits))]

\* a mutant of OptimizerParams: the optimizer is built over the head alone
HeadParams == {"classifier.weight", "classifier.bias"}

\* optim.AdamW(sentence_classification_model.parameters(), lr=5e-5)
OptimizerParams == ParamNames

\* a mutant of After: the training step without optimizer.zero_grad()
AfterNoZeroGrad(stmt) ==
    CASE stmt = "forward" -> "loss"
      [] stmt = "loss" -> "backward"
      [] stmt = "zero_grad" -> "backward"
      [] stmt = "backward" -> "step"
      [] stmt = "step" -> "forward"

\* a mutant of After: the training step without classification_loss.backward()
AfterNoBackward(stmt) ==
    CASE stmt = "forward" -> "loss"
      [] stmt = "loss" -> "zero_grad"
      [] stmt = "zero_grad" -> "step"
      [] stmt = "backward" -> "step"
      [] stmt = "step" -> "forward"

\* the statement that follows stmt in the training step
After(stmt) ==
    CASE stmt = "forward" -> "loss"
      [] stmt = "loss" -> "zero_grad"
      [] stmt = "zero_grad" -> "backward"
      [] stmt = "backward" -> "step"
      [] stmt = "step" -> "forward"

\* the script up to the training step: the model, the loss function, the
\* optimizer, the batch and its labels
Init ==
    /\ encoder \in Pretrained
    /\ \E a \in InitScales : classifier = LinearInit(a)
    /\ grad = [p \in ParamNames |-> <<>>]
    /\ opt_params = OptimizerParams
    /\ sample_sentences \in Batches
    /\ sentence_labels \in [1..Len(sample_sentences) -> 0..(num_classes - 1)]
    /\ class_logits = <<>>
    /\ classification_loss = <<>>
    /\ pc = "forward"
    /\ steps = 0
    /\ before = <<>>
    /\ consumed = <<>>
    /\ ops = <<>>
    /\ PoolIdle /\ EmbedIdle

\* a mutant of Forward: the forward pass builds the classifier anew
ForwardReinit ==
    /\ pc = "forward" /\ steps < MaxSteps
    /\ class_logits' = ClassLogits(encoder, classifier, sample_sentences)
    /\ classifier' = LinearInit(steps + 2)
    /\ before' = [encoder |-> encoder, weight |-> classifier.weight,
                  bias |-> classifier.bias]
    /\ ops' = <<"forward">>
    /\ pc' = After(pc)
    /\ UNCHANGED <<encoder, grad, opt_params, sample_sentences,
                   sentence_labels, classification_loss, steps, consumed,
                   poolVars, embedVars>>

\* class_logits = sentence_classification_model(sample_sentences)
Forward ==
    /\ pc = "forward" /\ steps < MaxSteps
    /\ class_logits' = ClassLogits(encoder, classifier, sample_sentences)
    /\ before' = [encoder |-> encoder, weight |-> classifier.weight,
                  bias |-> classifier.bias]
    /\ ops' = <<"forward">>
    /\ pc' = After(pc)
    /\ UNCHANGED <<encoder, classifier, grad, opt_params, sample_sentences,
                   sentence_labels, classification_loss, steps, consumed,
                   poolVars, embedVars>>

\* classification_loss = classification_loss_fn(class_logits, sentence_labels)
Loss ==
    /\ pc = "loss"
    /\ classification_loss' = CrossEntropyLoss(class_logits, sentence_labels, steps + 1)
    /\ ops' = Append(ops, "loss")
    /\ pc' = After(pc)
    /\ UNCHANGED <<encoder, classifier, grad, opt_params, sample_sentences,
                   sentence_labels, class_logits, steps, before, consumed,
                   poolVars, embedVars>>

\* optimizer.zero_grad(): the .grad of every parameter of the optimizer is cleared
ZeroGrad ==
    /\ pc = "zero_grad"
    /\ grad' = [p \in ParamNames |-> IF p \in opt_params THEN <<>> ELSE grad[p]]
    /\ ops' = Append(ops, "zero_grad")
    /\ pc' = After(pc)
    /\ UNCHANGED <<encoder, classifier, opt_params, sample_sentences,
                   sentence_labels, class_logits, classification_loss, steps,
                   before, consumed, poolVars, embedVars>>

\* classification_loss.backward(): the gradient of the loss is added to the
\* .grad of every parameter the loss was computed from (none is frozen)
Backward ==
    /\ pc = "backward"
    /\ grad' = [p \in ParamNames |-> Append(grad[p], classification_loss.id)]
    /\ ops' = Append(ops, "backward")
    /\ pc' = After(pc)
    /\ UNCHANGED <<encoder, classifier, opt_params, sample_sentences,
                   sentence_labels, class_logits, classification_loss, steps,
                   before, consumed, poolVars, embedVars>>

Shift1(x, d) == [i \in 1..Len(x) |-> x[i] + d]
Shift2(x, d) == [i \in 1..Len(x) |-> Shift1(x[i], d)]

\* optimizer.step(): AdamW changes every parameter it was built over whose
\* .grad is set, by a non-zero amount (here d on each entry), and no other
Step ==
    /\ pc = "step"
    /\ \E d \in Deltas :
          LET upd(p) == p \in opt_params /\ grad[p] # <<>>
          IN  /\ encoder' = IF upd("encoder") THEN encoder + d ELSE encoder
              /\ classifier' =
                    [weight |-> IF upd("classifier.weight")
                                THEN Shift2(classifier.weight, d)
                                ELSE classifier.weight,
                     bias |-> IF upd("classifier.bias")
                              THEN Shift1(classifier.bias, d)
                              ELSE classifier.bias]
    /\ consumed' = [p \in ParamNames |-> IF p \in opt_params THEN grad[p] ELSE <<>>]
    /\ ops' = Append(ops, "step")
    /\ steps' = steps + 1
    /\ pc' = After(pc)
    /\ UNCHANGED <<grad, opt_params, sample_sentences, sentence_labels,
                   class_logits, classification_loss, before, poolVars, embedVars>>

Next == Forward \/ Loss \/ ZeroGrad \/ Backward \/ Step

Spec == Init /\ [][Next]_vars

\* ------------------------------------------------ claims on the training step
\* the operations of one training step, in the order of the script
StepOrder == <<"forward", "loss", "zero_grad", "backward", "step">>

IsPrefix(s, t) == Len(s) <= Len(t) /\ \A i \in 1..Len(s) : s[i] = t[i]

\* a training step has just completed
StepCompleted == steps >= 1 /\ pc = "forward"

\* C7: W and b are changed only by the optimizer's update: the forward pass,
\* the loss, the gradient clearing and the gradient computation leave them
\* as they are, whatever ran before.
C7_HeadChangedOnlyByStep ==
    [][classifier' # classifier => (pc = "step" /\ ops' = StepOrder)]_vars

\* C7 witness: in a second training step, after the four operations ran, the
\* head is the updated one of the first step
C7_Witness ==
    /\ steps >= 1 /\ pc = "step"
    /\ ops = <<"forward", "loss", "zero_grad", "backward">>
    /\ classifier = [weight |-> before.weight, bias |-> before.bias]
    /\ \A a \in InitScales : classifier # LinearInit(a)

\* C8: after one training step the loss is a finite, non-negative scalar and
\* W and b differ from their values before the step.
C8_StepChangesHead ==
    StepCompleted =>
        /\ classification_loss.finite
        /\ IsFinite(classification_loss.lower)
        /\ ~RatLess(classification_loss.lower, <<0, 1>>)
        /\ classifier.weight # before.weight
        /\ classifier.bias # before.bias

\* C8 witness: the first step on two sentences of different lengths with the
\* labels 0 and 1 completed, with a loss above zero
C8_Witness ==
    /\ steps = 1 /\ pc = "forward"
    /\ Len(sample_sentences) = 2
    /\ Len(sample_sentences[1]) # Len(sample_sentences[2])
    /\ sentence_labels = <<0, 1>>
    /\ RatLess(<<0, 1>>, classification_loss.lower)

\* C9: a training step runs forward pass, loss, gradient clearing, gradient
\* computation and one optimizer update, in this order; the gradients an
\* update reads are those of the step's own loss and of no earlier one.
C9_OwnGradientsOnly ==
    /\ IsPrefix(ops, StepOrder)
    /\ StepCompleted =>
          /\ ops = StepOrder
          /\ classification_loss.id = steps
          /\ \A p \in ParamNames : consumed[p] = <<steps>>

\* C9 witness: a second training step completed, after a first one had left
\* its gradients in the parameters
C9_Witness ==
    /\ steps = 2 /\ pc = "forward"
    /\ \A p \in ParamNames : consumed[p] = <<2>>

\* C10: the optimizer holds every parameter of the model; a training step
\* computes gradients for and updates the encoder together with W and b;
\* before the update of a step the encoder is what it was when the step began.
C10_EncoderTrainedJointly ==
    /\ pc # "idle" => opt_params = ParamNames
    /\ steps = 0 => encoder \in Pretrained
    /\ pc \in {"loss", "zero_grad", "backward", "step"} => encoder = before.encoder
    /\ pc = "step" => \A p \in ParamNames : grad[p] # <<>>
    /\ StepCompleted =>
          /\ encoder # before.encoder
          /\ classifier.weight # before.weight
          /\ classifier.bias # before.bias

\* C10 witness: after a step the encoder's weights are not the pre-trained
\* ones, and neither W nor b is as initialised
C10_Witness ==
    /\ StepCompleted
    /\ encoder \notin Pretrained
    /\ \A a \in InitScales : /\ classifier.weight # LinearInit(a).weight
                             /\ classifier.bias # LinearInit(a).bias

====
